---- MODULE Spec2Model ----
(***************************************************************************)
(* RPL storing-mode simulation (alifa2try/RTOA): the per-node protocol     *)
(* state machine of node.py, the staggered node creation of                *)
(* environment.py, the driver of run_simulation.py and the routing-table   *)
(* overload attack of malicious.py, run by SimPy's event engine.           *)
(*                                                                         *)
(* The model is the discrete-event simulation itself.  queue is SimPy's    *)
(* event heap, ordered by (time, priority, insertion); one step of the     *)
(* model pops the earliest event and runs the process segment it resumes,  *)
(* up to that process's next yield.  A process started with env.process    *)
(* is an URGENT event of the current instant, so it runs before any other  *)
(* pending timeout: the handler a segment starts is part of that segment's *)
(* step.  Time is counted in ticks of 0.1 s, the grain of every delay of   *)
(* the source.  The random draws (positions, trickle offsets, attacker,    *)
(* victim, forged prefix) are the nondeterminism of the model.             *)
(***************************************************************************)
EXTENDS Integers, Sequences, FiniteSets, TLC

(* ---------------------------------------------------------------- bounds *)
\* config["NUM_NODES"] (100 in config.py), scaled.
NUM_NODES == 3
\* config["RUNTIME"] (5000 s in config.py), scaled, in ticks.
RUNTIME == 175
\* Node.max_downward_routes (800 in node.py), scaled.
max_downward_routes == 2
\* RoutingTableOverloadAttack.max_spoofs (50 in malicious.py), scaled.
max_spoofs == 2
\* Number of distinct values random.randint(1000, 9999) is drawn from.
NumFakes == 1
\* Number of iterations of generate_traffic's loop before the model stops it.
MaxTrafficCycles == 1

(* ------------------------------------------------------- program constants *)
\* config["AREA_WIDTH"], config["AREA_HEIGHT"], config["CONNECTION_RANGE"],
\* config["MINIMUM_DISTANCE"]: the configuration scaled to an integer grid.
AREA_WIDTH == 4
AREA_HEIGHT == 0
CONNECTION_RANGE == 2
MINIMUM_DISTANCE == 1
\* config["NODE_CREATION_INTERVAL"] = 1 s, in ticks.
NODE_CREATION_INTERVAL == 10
\* config["DIO_INTERVAL"] (200 s in config.py), scaled, in ticks.
DIO_INTERVAL == 70
\* main: buffer_time = 1 s.
buffer_time == 10
\* run_inbox: timeout(0.2) before an item is dispatched, timeout(0.1) idle poll.
PROCESS_DELAY == 2
POLL_DELAY == 1
\* send_dao_ack._delay_ack: timeout(0.1).
TX_DELAY == 1
\* discover_neighbors: timeout(0.1) before the DIS broadcast.
DISCOVER_DELAY == 1
\* send_dis: timeout(0.1) after the DIS broadcast.
SEND_DIS_DELAY == 1
\* Node.Imin = 1 s, Node.Imax = 8 s.
Imin == 10
Imax == 80
\* launch: timeout(1) before the loop, attack_interval = 2 s.
ATTACK_START_DELAY == 10
attack_interval == 20
\* random.randint(1000, 9999): the lowest forged number.
FakeLow == 1000
\* send_packet._delay_tx: timeout(0.1).
DATA_TX_DELAY == 1
\* main: WARMUP_TIME (120 s in run_simulation.py), scaled, in ticks.
WARMUP_TIME == 30
\* config["TRAFFIC_INTERVAL"] (15 s in config.py), scaled, in ticks.
TRAFFIC_INTERVAL == 20
\* SimPy's event priorities.
URGENT == 0
NORMAL == 1

None == -1
Nodes == 0 .. (NUM_NODES - 1)
Root == 0
Positions == (0 .. AREA_WIDTH) \X (0 .. AREA_HEIGHT)
FakeNums == FakeLow .. (FakeLow + NumFakes - 1)
NoItem == <<>>

(* ------------------------------------------------------------ pure helpers *)
HexDigit(d) ==
    CASE d = 0 -> "0" [] d = 1 -> "1" [] d = 2 -> "2" [] d = 3 -> "3"
      [] d = 4 -> "4" [] d = 5 -> "5" [] d = 6 -> "6" [] d = 7 -> "7"
      [] d = 8 -> "8" [] d = 9 -> "9" [] d = 10 -> "a" [] d = 11 -> "b"
      [] d = 12 -> "c" [] d = 13 -> "d" [] d = 14 -> "e" [] d = 15 -> "f"

RECURSIVE Hex(_)
\* format(n, "x")
Hex(n) == IF n < 16 THEN HexDigit(n) ELSE Hex(n \div 16) \o HexDigit(n % 16)

\* format(n, "02x")
Hex02(n) == IF n < 16 THEN "0" \o HexDigit(n) ELSE Hex(n)

\* Node.__init__: the prefix a node is constructed with.
InitPrefix(n) == IF n = Root THEN "2001:db8::1" ELSE "2001:db8::" \o Hex02(n)

\* receive_dio: f"{sender.prefix}:{int(self.node_id[4:]):02x}"
DerivePrefix(senderPrefix, n) == senderPrefix \o ":" \o Hex02(n)

\* launch: f"2001:db8::{fake_num:x}"
FakePrefix(fake_num) == "2001:db8::" \o Hex(fake_num)

\* calculate_distance, squared (the square root is monotone).
Dist2(p, q) == (p[1] - q[1]) * (p[1] - q[1]) + (p[2] - q[2]) * (p[2] - q[2])

\* downward_routes is a dict prefix -> child: a set of <<prefix, child>> pairs
\* with at most one pair per prefix.
RouteKeys(r) == {e[1] : e \in r}
RouteGet(r, p) == (CHOOSE e \in r : e[1] = p)[2]
RoutePut(r, p, c) == {e \in r : e[1] # p} \cup {<<p, c>>}

(* ------------------------------------------------------------ event queue *)
Event(at, prio, proc, node, item) ==
    [at |-> at, prio |-> prio, proc |-> proc, node |-> node, item |-> item]

\* Environment.schedule: heappush with key (time, priority, eid); an event
\* goes behind every queued event of the same time and priority.
Insert(q, e) ==
    LET k == Cardinality({i \in 1 .. Len(q) :
                 \/ q[i].at < e.at
                 \/ q[i].at = e.at /\ q[i].prio <= e.prio})
    IN  SubSeq(q, 1, k) \o <<e>> \o SubSeq(q, k + 1, Len(q))

VARIABLES
    until,             \* the horizon of env.run, None for a run without one
    now,               \* env.now, in ticks
    queue,             \* the event heap, as the sequence in which it pops
    position,          \* node -> (x, y), drawn by create_nodes
    created,           \* number of nodes create_nodes has built: len(nodes)
    parent,            \* node -> parent node or None
    parent_changes,    \* node -> number of assignments of its parent (history)
    prefix,            \* node -> prefix string
    neighbors,         \* node -> set of neighbor nodes
    downward_routes,   \* node -> set of <<prefix, child>>
    inbox,             \* node -> sequence of message tuples
    I,                 \* node -> trickle interval bound, in ticks
    t,                 \* node -> trickle fire offset, in ticks
    draw,              \* the end of [Imin, I] the trickle offsets are drawn at
    attacker,          \* the malicious node, None before main samples it
    count,             \* launch: spoofs injected so far
    cycles,            \* launch: iterations of the while loop so far (history,
                       \* not counted beyond max_spoofs + 1)
    packet_id,         \* generate_traffic: packets created so far
    total_data_sent,       \* PerformanceMonitor.total_data_sent
    total_data_delivered,  \* PerformanceMonitor.total_data_delivered
    last               \* the handler step just taken (history)

vars == <<until, now, queue, position, created, parent, parent_changes,
          prefix, neighbors, downward_routes, inbox, I, t, draw, attacker,
          count, cycles, packet_id, total_data_sent, total_data_delivered,
          last>>

AllNodes == 0 .. (created - 1)

InRange(a, b) ==
    Dist2(position[a], position[b]) <= CONNECTION_RANGE * CONNECTION_RANGE

Step(op, n, from, pfx, branch) ==
    [op |-> op, node |-> n, from |-> from, prefix |-> pfx, branch |-> branch]

\* The value of last after a step the properties do not inspect.
Idle == Step("", None, None, "", "")

\* create_nodes resamples a position while it is closer than MINIMUM_DISTANCE
\* to a node placed before.
ValidPlacement(pos) ==
    \A a, b \in Nodes :
        a # b => Dist2(pos[a], pos[b]) >= MINIMUM_DISTANCE * MINIMUM_DISTANCE

\* main: the first env.run(until=...) ends when creation is over.
CreationEnd == NUM_NODES * NODE_CREATION_INTERVAL + buffer_time

\* setup_environment starts create_nodes; main's first run stops at
\* CreationEnd, an URGENT event scheduled before anything else runs.
\* The instant at which main is resumed and the start of a run.
Start ==
    /\ now = 0
    /\ queue = <<Event(0, URGENT, "create_nodes", None, NoItem),
                 Event(CreationEnd, URGENT, "main", None, NoItem)>>
    /\ position \in {pos \in [Nodes -> Positions] : ValidPlacement(pos)}
    /\ created = 0
    /\ parent = [n \in Nodes |-> None]
    /\ parent_changes = [n \in Nodes |-> 0]
    /\ prefix = [n \in Nodes |-> InitPrefix(n)]
    /\ neighbors = [n \in Nodes |-> {}]
    /\ downward_routes = [n \in Nodes |-> {}]
    /\ inbox = [n \in Nodes |-> <<>>]
    /\ I = [n \in Nodes |-> Imin]
    /\ t = [n \in Nodes |-> Imin]
    /\ draw \in {"low", "high"}
    /\ attacker = None
    /\ count = 0
    /\ cycles = 0
    /\ packet_id = 0
    /\ total_data_sent = 0
    /\ total_data_delivered = 0
    /\ last = Idle

\* main: env.run(until=RUNTIME)
Init == Start /\ until = RUNTIME

\* Appending one message to each inbox of a set of receivers.
Broadcast(ib, targets, msg) ==
    [m \in Nodes |-> IF m \in targets THEN Append(ib[m], msg) ELSE ib[m]]

\* The event the engine pops next; env.run(until=RUNTIME) stops before the
\* events of the horizon.
ev == Head(queue)
Pops(proc) == queue # <<>> /\ (until = None \/ ev.at < until) /\ ev.proc = proc

\* A run without a horizon keeps time relative to the running event: the
\* clock reads 0 and every pending event holds its distance from now.  All
\* delays are relative, so the order of the events is the order of the heap.
Clock == IF until = None THEN 0 ELSE ev.at

\* The pending events once the running event is popped.
Rest ==
    IF until = None
       THEN [i \in 1 .. (Len(queue) - 1) |->
                [queue[i + 1] EXCEPT !.at = @ - ev.at]]
       ELSE Tail(queue)

\* A timeout of the running process: env.timeout(delay).
Timeout(q, delay, proc, node, item) ==
    Insert(q, Event(Clock + delay, NORMAL, proc, node, item))

(* ---------------------------------------------------------------- handlers *)
\* receive_dis: the test that registers the sender.
IsNewNeighbor(n, sender) == sender \notin neighbors[n] /\ InRange(n, sender)

\* AddNeighbors without the line that registers n with the sender: the
\* one-way registration that the symmetry of neighbors excludes.
AddNeighbors_OneWay(n, sender) ==
    [neighbors EXCEPT ![n] = @ \cup {sender}]

\* receive_dis: the neighbor lists after registering the sender.
AddNeighbors(n, sender) ==
    [m \in Nodes |->
        IF m = n THEN neighbors[m] \cup {sender}
        ELSE IF m = sender THEN neighbors[m] \cup {n}
        ELSE neighbors[m]]

\* receive_dis(sender) at node n.  ib and q are the inboxes and the event
\* queue the handler starts from.
ReceiveDis(n, sender, ib, q) ==
    /\ IF IsNewNeighbor(n, sender)
          THEN /\ neighbors' = AddNeighbors(n, sender)
               /\ inbox' = Broadcast(ib, {sender}, <<"DIO", n>>)
               /\ last' = Step("receive_dis", n, sender, "", "new")
          ELSE /\ neighbors' = neighbors
               /\ inbox' = ib
               /\ last' = Step("receive_dis", n, sender, "", "known")
    /\ queue' = q
    /\ UNCHANGED <<parent_changes, parent, prefix, downward_routes,
                   total_data_delivered>>

\* IsRoot as it would be if receive_dio did not return early at the root.
IsRoot_Never(n) == FALSE

\* Node.is_root
IsRoot(n) == n = Root

\* ShouldSwitch with <= in place of <: a switch on a tie.
ShouldSwitch_OnTie(n, sender) ==
    /\ Dist2(position[n], position[sender])
         <= Dist2(position[n], position[parent[n]])
    /\ parent[sender] # n

\* receive_dio: the condition under which a node with a parent switches.
ShouldSwitch(n, sender) ==
    /\ Dist2(position[n], position[sender])
         < Dist2(position[n], position[parent[n]])
    /\ parent[sender] # n

\* receive_dio: does the node take the sender as its parent?
TakesParent(n, sender) ==
    IF IsRoot(n) THEN FALSE
    ELSE IF parent[n] = None THEN TRUE
    ELSE ShouldSwitch(n, sender)

\* receive_dio(sender) at node n, with the send_dao sub-process it starts.
ReceiveDio(n, sender, ib, q) ==
    /\ IF TakesParent(n, sender)
          THEN /\ parent' = [parent EXCEPT ![n] = sender]
               /\ parent_changes' = [parent_changes EXCEPT ![n] = @ + 1]
               /\ prefix' = [prefix EXCEPT
                                ![n] = DerivePrefix(prefix[sender], n)]
               /\ inbox' = Broadcast(ib, {sender},
                              <<"DAO", n, DerivePrefix(prefix[sender], n)>>)
               /\ last' = Step("receive_dio", n, sender, "",
                               IF parent[n] = None THEN "adopt" ELSE "switch")
          ELSE /\ UNCHANGED <<parent_changes, parent, prefix>>
               /\ inbox' = ib
               /\ last' = Step("receive_dio", n, sender, "",
                               IF IsRoot(n) THEN "root" ELSE "keep")
    /\ queue' = q
    /\ UNCHANGED <<neighbors, downward_routes, total_data_delivered>>

\* IsDuplicate as it would be if receive_dao had no duplicate test.
IsDuplicate_Never(n, child_prefix, child_node) == FALSE

\* receive_dao: the identical mapping is already installed.
IsDuplicate(n, child_prefix, child_node) ==
    IF child_prefix \in RouteKeys(downward_routes[n])
       THEN RouteGet(downward_routes[n], child_prefix) = child_node
       ELSE FALSE

\* IsOverloaded with > in place of >=: one entry beyond the capacity.
IsOverloaded_OffByOne(n) ==
    Cardinality(downward_routes[n]) > max_downward_routes

\* receive_dao: the table is at capacity.
IsOverloaded(n) == Cardinality(downward_routes[n]) >= max_downward_routes

\* HasParent as it would be if receive_dao never forwarded.
HasParent_Never(n) == FALSE

\* receive_dao: "if self.parent", the test for the upstream forward.
HasParent(n) == parent[n] # None

\* receive_dao(child_prefix, child_node) at node n, with send_dao_ack.
ReceiveDao(n, child_prefix, child_node, ib, q) ==
    /\ IF IsDuplicate(n, child_prefix, child_node)
          THEN /\ UNCHANGED downward_routes
               /\ inbox' = ib
               /\ queue' = q
               /\ last' = Step("receive_dao", n, child_node, child_prefix,
                               "duplicate")
          ELSE IF IsOverloaded(n)
          THEN /\ UNCHANGED downward_routes
               /\ inbox' = ib
               /\ queue' = q
               /\ last' = Step("receive_dao", n, child_node, child_prefix,
                               "overloaded")
          ELSE /\ downward_routes' =
                     [downward_routes EXCEPT
                         ![n] = RoutePut(@, child_prefix, child_node)]
               /\ inbox' = IF HasParent(n)
                              THEN Broadcast(ib, {parent[n]},
                                        <<"DAO", child_node, child_prefix>>)
                              ELSE ib
               /\ queue' = Timeout(q, TX_DELAY, "delay_ack", child_node,
                                   <<"DAO-ACK", n, child_prefix, 0>>)
               /\ last' = Step("receive_dao", n, child_node, child_prefix,
                               "installed")
    /\ UNCHANGED <<parent_changes, parent, prefix, neighbors,
                   total_data_delivered>>

\* receive_dao_ack as it would be if the node took the acknowledged prefix
\* for its own.
ReceiveDaoAck_TakesPrefix(n, from_node, child_prefix, status, ib, q) ==
    /\ inbox' = ib
    /\ queue' = q
    /\ last' = Step("receive_dao_ack", n, from_node, child_prefix, "")
    /\ prefix' = [prefix EXCEPT ![n] = child_prefix]
    /\ UNCHANGED <<parent_changes, parent, neighbors, downward_routes,
                   total_data_delivered>>

\* receive_dao_ack: logs only.
ReceiveDaoAck(n, from_node, child_prefix, status, ib, q) ==
    /\ inbox' = ib
    /\ queue' = q
    /\ last' = Step("receive_dao_ack", n, from_node, child_prefix, "")
    /\ UNCHANGED <<parent_changes, parent, prefix, neighbors, downward_routes,
                   total_data_delivered>>

\* A data packet: Packet(src_id, dst_prefix) with its packet_id.  The tag
\* stands for run_inbox's isinstance(item, tuple) test, which is false for it.
Packet(id, src, dst_prefix) == <<"DATA", id, src, dst_prefix>>

\* handle_packet: the packet is for this node.
Delivers(n, dst_prefix) == dst_prefix = prefix[n]

\* NextHop with the parent tried before the route table.
NextHop_ParentFirst(n, dst_prefix) ==
    IF parent[n] # None THEN parent[n]
    ELSE IF dst_prefix \in RouteKeys(downward_routes[n])
       THEN RouteGet(downward_routes[n], dst_prefix)
    ELSE None

\* handle_packet: where a packet that is not for this node goes: the mapped
\* child, else the parent, else nowhere (None, the parent of a node without
\* one).
NextHop(n, dst_prefix) ==
    IF dst_prefix \in RouteKeys(downward_routes[n])
       THEN RouteGet(downward_routes[n], dst_prefix)
       ELSE parent[n]

\* handle_packet(packet) at node n, with send_packet's _delay_tx process.
HandlePacket(n, packet, ib, q) ==
    LET dst_prefix == packet[4]
    IN  /\ IF Delivers(n, dst_prefix)
              THEN /\ total_data_delivered' = total_data_delivered + 1
                   /\ queue' = q
                   /\ last' = Step("handle_packet", n, None, dst_prefix,
                                   "deliver")
              ELSE IF NextHop(n, dst_prefix) # None
              THEN /\ UNCHANGED total_data_delivered
                   /\ queue' = Timeout(q, DATA_TX_DELAY, "delay_tx",
                                       NextHop(n, dst_prefix), packet)
                   /\ last' = Step("handle_packet", n, None, dst_prefix,
                                   "forward")
              ELSE /\ UNCHANGED total_data_delivered
                   /\ queue' = q
                   /\ last' = Step("handle_packet", n, None, dst_prefix, "drop")
        /\ inbox' = ib
        /\ UNCHANGED <<parent_changes, parent, prefix, neighbors,
                       downward_routes>>

(* --------------------------------------------------------------- processes *)
\* Environment.schedule for several events pushed one after the other: the
\* heap pops by (time, priority, eid), so the pushed events go, in the order
\* of their pushes, behind the queued events of the same time and priority.
Schedule(q, es) ==
    LET c == q \o es
        Before(j, i) ==
            \/ c[j].at < c[i].at
            \/ c[j].at = c[i].at /\ c[j].prio < c[i].prio
            \/ c[j].at = c[i].at /\ c[j].prio = c[i].prio /\ j <= i
        Rank(i) == Cardinality({j \in DOMAIN c : Before(j, i)})
    IN  [p \in DOMAIN c |-> c[CHOOSE i \in DOMAIN c : Rank(i) = p]]

\* The first timeouts of create_nodes' next round and of the processes of
\* the node n it has just built.
FirstTimeouts(n) ==
    <<Event(Clock + NODE_CREATION_INTERVAL, NORMAL, "create_nodes", None,
            NoItem),
      Event(Clock + POLL_DELAY, NORMAL, "run_inbox", n, NoItem),
      Event(Clock + DISCOVER_DELAY, NORMAL, "discover_neighbors", n, NoItem),
      Event(Clock + DIO_INTERVAL, NORMAL, "send_dio", n, NoItem),
      Event(Clock + t[n], NORMAL, "trickle_timer", n, NoItem)>>

\* create_nodes: one node per NODE_CREATION_INTERVAL, node 0 is the root.
\* A node's processes start in the order run_inbox, discover_neighbors,
\* send_dio, trickle_timer: the inbox and the neighbor list are empty, so
\* each only sets its first timeout.  network_disruption, guarded by
\* "if False", only sleeps and is left out.
CreateNodes ==
    /\ Pops("create_nodes")
    /\ now' = Clock
    /\ IF created < NUM_NODES
          THEN /\ created' = created + 1
               /\ queue' = Schedule(Rest, FirstTimeouts(created))
          ELSE /\ created' = created
               /\ queue' = Rest
    /\ last' = Idle
    /\ UNCHANGED <<until, position, draw, parent_changes, parent, prefix,
                   neighbors, downward_routes, inbox, I, t, attacker, count>>
    /\ UNCHANGED <<cycles, packet_id, total_data_sent, total_data_delivered>>

\* run_inbox: dispatch the item popped PROCESS_DELAY ago, then pop the next
\* one or poll again after POLL_DELAY.
RunInbox ==
    /\ Pops("run_inbox")
    /\ now' = Clock
    /\ LET n == ev.node
           item == ev.item
           more == inbox[n] # <<>>
           ib == [inbox EXCEPT ![n] = IF more THEN Tail(@) ELSE @]
           q == IF more
                  THEN Timeout(Rest, PROCESS_DELAY, "run_inbox", n,
                               Head(inbox[n]))
                  ELSE Timeout(Rest, POLL_DELAY, "run_inbox", n, NoItem)
       IN  \/ /\ item = NoItem
              /\ inbox' = ib
              /\ queue' = q
              /\ last' = Idle
              /\ UNCHANGED <<parent_changes, parent, prefix, neighbors,
                             downward_routes, total_data_delivered>>
           \/ /\ item # NoItem
              /\ item[1] = "DAO-ACK"
              /\ ReceiveDaoAck(n, item[2], item[3], item[4], ib, q)
           \/ /\ item # NoItem
              /\ item[1] = "DIS"
              /\ ReceiveDis(n, item[2], ib, q)
           \/ /\ item # NoItem
              /\ item[1] = "DIO"
              /\ ReceiveDio(n, item[2], ib, q)
           \/ /\ item # NoItem
              /\ item[1] = "DAO"
              /\ ReceiveDao(n, item[3], item[2], ib, q)
           \/ /\ item # NoItem
              /\ item[1] = "DATA"
              /\ HandlePacket(n, item, ib, q)
    /\ UNCHANGED <<until, position, draw, created, I, t, attacker, count,
                   packet_id, total_data_sent, cycles>>

\* DisTargets without the "node != self" test.
DisTargets_WithSelf(n) == {m \in AllNodes : InRange(n, m)}

\* discover_neighbors / send_dis: DIS to every other node in range.
DisTargets(n) == {m \in AllNodes : m # n /\ InRange(n, m)}

\* discover_neighbors: the one-shot DIS broadcast after the startup delay.
DiscoverNeighbors ==
    /\ Pops("discover_neighbors")
    /\ now' = Clock
    /\ inbox' = Broadcast(inbox, DisTargets(ev.node), <<"DIS", ev.node>>)
    /\ queue' = Rest
    /\ last' = Idle
    /\ UNCHANGED <<until, position, draw, created, parent_changes, parent,
                   prefix, neighbors, downward_routes, I, t, attacker, count>>
    /\ UNCHANGED <<cycles, packet_id, total_data_sent, total_data_delivered>>

\* send_dio: the neighbors that get a DIO.
DioTargets(n) == {nbr \in neighbors[n] : parent[nbr] # n}

\* send_dio: one round of the periodic advertisement.
SendDio ==
    /\ Pops("send_dio")
    /\ now' = Clock
    /\ inbox' = Broadcast(inbox, DioTargets(ev.node), <<"DIO", ev.node>>)
    /\ queue' = Timeout(Rest, DIO_INTERVAL, "send_dio", ev.node, NoItem)
    /\ last' = Idle
    /\ UNCHANGED <<until, position, draw, created, parent_changes, parent,
                   prefix, neighbors, downward_routes, I, t, attacker, count>>
    /\ UNCHANGED <<cycles, packet_id, total_data_sent, total_data_delivered>>

\* NextI without the cap at Imax.
NextI_Uncapped(i) == i * 2

\* trickle_timer: I after a fire.
NextI(i) == IF i * 2 < Imax THEN i * 2 ELSE Imax

\* random.uniform(Imin, I): the model draws an end of the interval, the
\* same end at every fire of a run.
Draws(i) == IF draw = "low" THEN {Imin} ELSE {i}

\* trickle_timer: double I, draw t, sleep t.
TrickleUpdate(n, q) ==
    /\ I' = [I EXCEPT ![n] = NextI(I[n])]
    /\ \E d \in Draws(NextI(I[n])) :
          /\ t' = [t EXCEPT ![n] = d]
          /\ queue' = Timeout(q, d, "trickle_timer", n, NoItem)

\* trickle_timer fires: a node without neighbors runs send_dis first and
\* goes on when that process has ended.
TrickleTimer ==
    /\ Pops("trickle_timer")
    /\ now' = Clock
    /\ IF neighbors[ev.node] = {}
          THEN /\ inbox' = Broadcast(inbox, DisTargets(ev.node),
                                     <<"DIS", ev.node>>)
               /\ queue' = Timeout(Rest, SEND_DIS_DELAY, "send_dis",
                                   ev.node, NoItem)
               /\ UNCHANGED <<I, t>>
          ELSE /\ inbox' = inbox
               /\ TrickleUpdate(ev.node, Rest)
    /\ last' = Idle
    /\ UNCHANGED <<until, position, draw, created, parent_changes, parent,
                   prefix, neighbors, downward_routes, attacker, count>>
    /\ UNCHANGED <<cycles, packet_id, total_data_sent, total_data_delivered>>

\* send_dis ends after its timeout: the process event that resumes
\* trickle_timer is scheduled for the same instant.
SendDisEnds ==
    /\ Pops("send_dis")
    /\ now' = Clock
    /\ queue' = Timeout(Rest, 0, "trickle_resume", ev.node, NoItem)
    /\ last' = Idle
    /\ UNCHANGED <<until, position, draw, created, parent_changes, parent,
                   prefix, neighbors, downward_routes, inbox, I, t, attacker,
                   count>>
    /\ UNCHANGED <<cycles, packet_id, total_data_sent, total_data_delivered>>

\* trickle_timer resumes after send_dis.
TrickleResume ==
    /\ Pops("trickle_resume")
    /\ now' = Clock
    /\ TrickleUpdate(ev.node, Rest)
    /\ last' = Idle
    /\ UNCHANGED <<until, position, draw, created, parent_changes, parent,
                   prefix, neighbors, downward_routes, inbox, attacker,
                   count>>
    /\ UNCHANGED <<cycles, packet_id, total_data_sent, total_data_delivered>>

\* send_dao_ack._delay_ack: the DAO-ACK reaches the child's inbox.
DelayAck ==
    /\ Pops("delay_ack")
    /\ now' = Clock
    /\ inbox' = Broadcast(inbox, {ev.node}, ev.item)
    /\ queue' = Rest
    /\ last' = Idle
    /\ UNCHANGED <<until, position, draw, created, parent_changes, parent,
                   prefix, neighbors, downward_routes, I, t, attacker, count>>
    /\ UNCHANGED <<cycles, packet_id, total_data_sent, total_data_delivered>>

\* main, between its two env.run calls: with ENABLE_ATTACK and one malicious
\* node, the attacker is sampled from range(1, NUM_NODES) and launch starts;
\* then generate_traffic starts with its warm-up delay.
Main ==
    /\ Pops("main")
    /\ now' = Clock
    /\ \/ /\ attacker' \in Nodes \ {Root}
          /\ queue' = Timeout(Timeout(Rest, ATTACK_START_DELAY,
                                      "launch", None, NoItem),
                              WARMUP_TIME, "generate_traffic", None, NoItem)
       \/ /\ attacker' = None
          /\ queue' = Timeout(Rest, WARMUP_TIME, "generate_traffic",
                              None, NoItem)
    /\ last' = Idle
    /\ UNCHANGED <<until, position, draw, created, parent_changes, parent,
                   prefix, neighbors, downward_routes, inbox, I, t, count>>
    /\ UNCHANGED <<cycles, packet_id, total_data_sent, total_data_delivered>>

\* launch: the while loop's test and the sleep that opens a cycle.
LoopOrFinish(q, c) ==
    IF c < max_spoofs
       THEN Timeout(q, attack_interval, "attack_cycle", None, NoItem)
       ELSE q

\* launch, after its initial delay: count = 0 and the loop is entered.
Launch ==
    /\ Pops("launch")
    /\ now' = Clock
    /\ count' = 0
    /\ queue' = LoopOrFinish(Rest, 0)
    /\ last' = Idle
    /\ UNCHANGED <<until, position, draw, created, parent_changes, parent,
                   prefix, neighbors, downward_routes, inbox, I, t, attacker>>
    /\ UNCHANGED <<cycles, packet_id, total_data_sent, total_data_delivered>>

\* PossibleVictims without the test for a downward route.
PossibleVictims_Any == {v \in AllNodes : v # attacker}

\* launch: the nodes an attack cycle may pick.
PossibleVictims ==
    {v \in AllNodes : v # attacker /\ Cardinality(downward_routes[v]) > 0}

\* launch: one cycle of the loop.  Without a victim it continues with the
\* next cycle; else it injects a forged DAO into the victim's handler and
\* waits for that process to end.
AttackCycle ==
    /\ Pops("attack_cycle")
    /\ now' = Clock
    /\ cycles' = IF cycles <= max_spoofs THEN cycles + 1 ELSE cycles
    /\ IF PossibleVictims = {}
          THEN /\ queue' = LoopOrFinish(Rest, count)
               /\ last' = Step("attack", None, attacker, "", "no_victim")
               /\ UNCHANGED <<parent_changes, parent, prefix, neighbors,
                              downward_routes, inbox, total_data_delivered>>
          ELSE \E victim \in PossibleVictims, fake_num \in FakeNums :
                  ReceiveDao(victim, FakePrefix(fake_num), attacker, inbox,
                             Timeout(Rest, 0, "receive_dao_ends",
                                     None, NoItem))
    /\ UNCHANGED <<until, position, draw, created, I, t, attacker, count,
                   packet_id, total_data_sent>>

\* The injected receive_dao ends after its timeout(0): the process event
\* that resumes launch is scheduled for the same instant.
ReceiveDaoEnds ==
    /\ Pops("receive_dao_ends")
    /\ now' = Clock
    /\ queue' = Timeout(Rest, 0, "launch_resume", None, NoItem)
    /\ last' = Idle
    /\ UNCHANGED <<until, position, draw, created, parent_changes, parent,
                   prefix, neighbors, downward_routes, inbox, I, t, attacker,
                   count>>
    /\ UNCHANGED <<cycles, packet_id, total_data_sent, total_data_delivered>>

\* launch resumes: count += 1 and the loop test.
LaunchResume ==
    /\ Pops("launch_resume")
    /\ now' = Clock
    /\ count' = count + 1
    /\ queue' = LoopOrFinish(Rest, count + 1)
    /\ last' = Idle
    /\ UNCHANGED <<until, position, draw, created, parent_changes, parent,
                   prefix, neighbors, downward_routes, inbox, I, t, attacker>>
    /\ UNCHANGED <<cycles, packet_id, total_data_sent, total_data_delivered>>

\* DelayTx with the append done twice: the next hop gets two copies.
DelayTx_Twice ==
    /\ Pops("delay_tx")
    /\ now' = Clock
    /\ inbox' = Broadcast(Broadcast(inbox, {ev.node}, ev.item), {ev.node},
                          ev.item)
    /\ queue' = Rest
    /\ last' = Idle
    /\ UNCHANGED <<until, position, draw, created, parent_changes, parent,
                   prefix, neighbors, downward_routes, I, t, attacker, count>>
    /\ UNCHANGED <<cycles, packet_id, total_data_sent, total_data_delivered>>

\* send_packet._delay_tx: the packet reaches the next hop's inbox.
DelayTx ==
    /\ Pops("delay_tx")
    /\ now' = Clock
    /\ inbox' = Broadcast(inbox, {ev.node}, ev.item)
    /\ queue' = Rest
    /\ last' = Idle
    /\ UNCHANGED <<until, position, draw, created, parent_changes, parent,
                   prefix, neighbors, downward_routes, I, t, attacker, count>>
    /\ UNCHANGED <<cycles, packet_id, total_data_sent, total_data_delivered>>

\* generate_traffic, after the warm-up: packet_id = 0 and the loop is entered.
\* The event of a cycle carries the number of the iteration.
GenerateTraffic ==
    /\ Pops("generate_traffic")
    /\ now' = Clock
    /\ packet_id' = 0
    /\ queue' = Timeout(Rest, TRAFFIC_INTERVAL, "traffic_cycle", None,
                        <<1>>)
    /\ last' = Idle
    /\ UNCHANGED <<until, position, draw, created, parent_changes, parent,
                   prefix, neighbors, downward_routes, inbox, I, t, attacker,
                   count>>
    /\ UNCHANGED <<cycles, total_data_sent, total_data_delivered>>

\* generate_traffic: the loop goes on to iteration k + 1 while the model's
\* budget of iterations lasts.
TrafficGoesOn(q, k) ==
    IF k < MaxTrafficCycles
       THEN Timeout(q, TRAFFIC_INTERVAL, "traffic_cycle", None, <<k + 1>>)
       ELSE q

\* generate_traffic: one cycle of the loop.  src and dst are drawn from the
\* nodes; a packet for dst's current prefix starts at src by
\* src.send_packet(pkt, src).
TrafficCycle ==
    /\ Pops("traffic_cycle")
    /\ now' = Clock
    /\ \E src \in AllNodes, dst \in AllNodes :
          IF created < 2 \/ src = dst
             THEN /\ queue' = TrafficGoesOn(Rest, ev.item[1])
                  /\ last' = Step("traffic", src, None, prefix[dst], "skip")
                  /\ UNCHANGED <<packet_id, total_data_sent>>
             ELSE /\ packet_id' = packet_id + 1
                  /\ total_data_sent' = total_data_sent + 1
                  /\ queue' = Timeout(TrafficGoesOn(Rest, ev.item[1]),
                                      DATA_TX_DELAY, "delay_tx", src,
                                      Packet(packet_id, src, prefix[dst]))
                  /\ last' = Step("traffic", src, None, prefix[dst], "created")
    /\ UNCHANGED <<until, position, draw, created, parent_changes, parent,
                   prefix, neighbors, downward_routes, inbox, I, t, attacker,
                   count, cycles, total_data_delivered>>

\* A run without a horizon: env.run() is given no until, the loops of the
\* processes go on for ever.  The runs considered are those that place the
\* root at the origin and draw every trickle offset at Imin.
LiveInit ==
    /\ Start
    /\ until = None
    /\ draw = "low"
    /\ position[Root] = <<0, 0>>

Next ==
    \/ CreateNodes
    \/ RunInbox
    \/ DiscoverNeighbors
    \/ SendDio
    \/ TrickleTimer
    \/ SendDisEnds
    \/ TrickleResume
    \/ DelayAck
    \/ Main
    \/ Launch
    \/ AttackCycle
    \/ ReceiveDaoEnds
    \/ LaunchResume
    \/ DelayTx
    \/ GenerateTraffic
    \/ TrafficCycle

Spec == Init /\ [][Next]_vars

\* The run without a horizon.  The engine always runs the next event of the
\* heap, and the heap is never empty (run_inbox reschedules itself), so a
\* step is taken whenever one is possible.
LiveSpec == LiveInit /\ [][Next]_vars /\ WF_vars(Next)

(* ------------------------------------------------------------- properties *)
\* The node, sender/child and prefix of the handler step that was just taken.
DaoStep == last'.op = "receive_dao"
DioStep == last'.op = "receive_dio"

\* Number of DAO-ACK transmissions under way.
AcksInFlight(q) == Cardinality({i \in 1 .. Len(q) : q[i].proc = "delay_ack"})

\* The inboxes of all nodes but n are as they were.
OtherInboxesUnchanged(n) == \A m \in Nodes \ {n} : inbox'[m] = inbox[m]

\* C1: in every reachable state every node's downward_routes holds at most
\* max_downward_routes entries, whether the DAOs come through the inbox or
\* from the attack agent's direct receive_dao calls.
C1_RoutesWithinCapacity ==
    \A n \in Nodes : Cardinality(downward_routes[n]) <= max_downward_routes

\* C1 witness: the attack agent's injection hit a full table and was rejected.
C1_Witness ==
    /\ last.op = "receive_dao"
    /\ last.branch = "overloaded"
    /\ attacker # None
    /\ last.from = attacker
    /\ Cardinality(downward_routes[last.node]) = max_downward_routes

\* C2: every non-root node with a parent P has the prefix
\* derived from P's current prefix.
C2_PrefixDerivedFromCurrentParent ==
    \A n \in Nodes \ {Root} :
        parent[n] # None => prefix[n] = DerivePrefix(prefix[parent[n]], n)

\* C3: in every reachable state no two nodes are each other's parent.
C3_NoParentTwoCycle ==
    \A a, b \in Nodes : a # b => ~(parent[a] = b /\ parent[b] = a)

\* The nodes reached from n by following parent references at most k times.
RECURSIVE Ancestors(_, _)
Ancestors(n, k) ==
    IF k = 0 \/ parent[n] = None THEN {}
    ELSE {parent[n]} \cup Ancestors(parent[n], k - 1)

\* C4: in every reachable state the parent relation has no cycle of any length.
C4_ParentRelationAcyclic ==
    \A n \in Nodes : n \notin Ancestors(n, NUM_NODES)

\* C5: the neighbor relation is symmetric in every reachable state.
C5_NeighborsSymmetric ==
    \A a, b \in Nodes : (a \in neighbors[b]) <=> (b \in neighbors[a])

\* C5 witness: a DIS from a new sender in range was just handled.
C5_Witness ==
    /\ last.op = "receive_dis"
    /\ last.branch = "new"
    /\ last.from \in neighbors[last.node]

\* C6: a receive_dao step for a (prefix, child) mapping that is already
\* installed leaves the table unchanged, sends no DAO-ACK and enqueues no DAO
\* (nothing at all) into another node's inbox.
C6_DuplicateDaoIsNoOp ==
    [][(DaoStep /\ <<last'.prefix, last'.from>> \in downward_routes[last'.node])
          => /\ downward_routes' = downward_routes
             /\ AcksInFlight(queue') = AcksInFlight(queue)
             /\ OtherInboxesUnchanged(last'.node)]_vars

\* C6 witness: a duplicate DAO was just handled.
C6_Witness ==
    /\ last.op = "receive_dao"
    /\ last.branch = "duplicate"
    /\ <<last.prefix, last.from>> \in downward_routes[last.node]

\* C7: a receive_dao step for a prefix that is not in a full table leaves the
\* table unchanged, sends no DAO-ACK and no upstream DAO; with one slot free
\* the mapping is installed; and a full table never changes, so the mappings
\* installed first are the ones that stay (with capacity 1, the first child's).
C7_CapacityBoundary ==
    [][/\ (DaoStep /\ last'.prefix \notin RouteKeys(downward_routes[last'.node]))
          => /\ Cardinality(downward_routes[last'.node]) = max_downward_routes
                => /\ downward_routes' = downward_routes
                   /\ AcksInFlight(queue') = AcksInFlight(queue)
                   /\ OtherInboxesUnchanged(last'.node)
             /\ Cardinality(downward_routes[last'.node]) = max_downward_routes - 1
                => downward_routes'[last'.node] =
                      downward_routes[last'.node] \cup {<<last'.prefix, last'.from>>}
       /\ \A n \in Nodes :
             Cardinality(downward_routes[n]) = max_downward_routes
                => downward_routes'[n] = downward_routes[n]]_vars

\* C7 witness: a DAO for a new prefix was just rejected by a full table.
C7_Witness ==
    /\ last.op = "receive_dao"
    /\ last.branch = "overloaded"
    /\ last.prefix \notin RouteKeys(downward_routes[last.node])
    /\ Cardinality(downward_routes[last.node]) = max_downward_routes

\* C8: a node that has a parent changes it in a receive_dio step only if the
\* sender is strictly closer than the parent and the sender's parent is not
\* this node; a DIO from an equidistant sender changes neither parent nor
\* prefix.
C8_SwitchOnlyIfStrictlyCloser ==
    [][(DioStep /\ parent[last'.node] # None)
          => LET n == last'.node
                 sender == last'.from
                 dist_sender == Dist2(position[n], position[sender])
                 dist_curr == Dist2(position[n], position[parent[n]])
             IN  /\ parent'[n] # parent[n]
                    => dist_sender < dist_curr /\ parent[sender] # n
                 /\ dist_sender = dist_curr
                    => parent'[n] = parent[n] /\ prefix'[n] = prefix[n]]_vars

\* C8 witness: a node with a parent just handled the DIO of another node that
\* is exactly as far away as its parent.
C8_Witness ==
    /\ last.op = "receive_dio"
    /\ last.node # Root
    /\ parent[last.node] # None
    /\ last.from # parent[last.node]
    /\ Dist2(position[last.node], position[last.from])
         = Dist2(position[last.node], position[parent[last.node]])

\* C9: the root never has a parent, keeps the prefix it was constructed with,
\* and a receive_dio step at the root changes none of the root's fields.
C9_RootIsFixed ==
    /\ [](parent[Root] = None /\ prefix[Root] = InitPrefix(Root))
    /\ [][(DioStep /\ last'.node = Root)
             => /\ parent'[Root] = parent[Root]
                /\ prefix'[Root] = prefix[Root]
                /\ neighbors'[Root] = neighbors[Root]
                /\ downward_routes'[Root] = downward_routes[Root]
                /\ I'[Root] = I[Root]
                /\ t'[Root] = t[Root]]_vars

\* C9 witness: the root just handled a DIO.
C9_Witness ==
    /\ last.op = "receive_dio"
    /\ last.node = Root
    /\ last.from \in neighbors[Root]

\* C10: no node is its own parent and no node is in its own neighbor list.
C10_NoSelfParentNoSelfNeighbor ==
    \A n \in Nodes : parent[n] # n /\ n \notin neighbors[n]

\* C10 witness: every node but the root has a parent and neighbors.
C10_Witness ==
    \A n \in Nodes \ {Root} : parent[n] # None /\ neighbors[n] # {}
\* The data-packet steps: the packet handled is the item of the event popped.
PacketStep == last'.op = "handle_packet"

\* Number of transmissions of packet pkt to node m under way.
TxInFlight(q, m, pkt) ==
    Cardinality({i \in 1 .. Len(q) :
        q[i].proc = "delay_tx" /\ q[i].node = m /\ q[i].item = pkt})

\* The transmissions of pkt a step starts towards m.
TxStarted(m, pkt) == TxInFlight(queue', m, pkt) - TxInFlight(queue, m, pkt)

\* C11: handle_packet delivers a packet for the node's own prefix and does not
\* forward it; else forwards it to the mapped child if the destination is a
\* key of downward_routes; else to the parent if there is one; else drops it:
\* the packet goes to no inbox, the delivered counter is unchanged and the
\* sent counter keeps the increment of the packet's creation.
C11_PacketPrecedence ==
    [][PacketStep =>
        LET n == ev.node
            pkt == ev.item
            D == pkt[4]
            own == D = prefix[n]
            routed == D \in RouteKeys(downward_routes[n])
        IN  /\ own =>
                 /\ total_data_delivered' = total_data_delivered + 1
                 /\ \A m \in Nodes : TxStarted(m, pkt) = 0
            /\ (~own /\ routed) =>
                 /\ total_data_delivered' = total_data_delivered
                 /\ \A m \in Nodes : TxStarted(m, pkt) =
                       IF m = RouteGet(downward_routes[n], D) THEN 1 ELSE 0
            /\ (~own /\ ~routed /\ parent[n] # None) =>
                 /\ total_data_delivered' = total_data_delivered
                 /\ \A m \in Nodes : TxStarted(m, pkt) =
                       IF m = parent[n] THEN 1 ELSE 0
            /\ (~own /\ ~routed /\ parent[n] = None) =>
                 /\ total_data_delivered' = total_data_delivered
                 /\ \A m \in Nodes : TxStarted(m, pkt) = 0
                 /\ OtherInboxesUnchanged(n)
                 /\ total_data_sent' = total_data_sent
                 /\ total_data_sent >= 1]_vars

\* C11 witness: a packet was just dropped; it counts as sent, not as delivered.
C11_Witness ==
    /\ last.op = "handle_packet"
    /\ last.branch = "drop"
    /\ total_data_sent = 1
    /\ total_data_delivered = 0

\* Scenario A's topology: the nodes in a line, each in range of its immediate
\* neighbors only; node 0 is the root.
LineTopology ==
    /\ \A n \in Nodes : position[n] = <<n * CONNECTION_RANGE, 0>>
    /\ attacker = None

\* Discovery and two advertisement cycles of every node are over.
TwoCyclesDone ==
    /\ created = NUM_NODES
    /\ now >= NUM_NODES * NODE_CREATION_INTERVAL + 2 * DIO_INTERVAL

\* C12: in scenario A, after discovery and two advertisement cycles, node 2's
\* prefix is root-prefix + suffix(1) + suffix(2) and the root's
\* downward_routes has keys for the current prefixes of node 1 and node 2.
C12_ScenarioA ==
    (LineTopology /\ TwoCyclesDone) =>
        /\ prefix[2] = DerivePrefix(DerivePrefix(InitPrefix(Root), 1), 2)
        /\ {prefix[1], prefix[2]} \subseteq RouteKeys(downward_routes[Root])

\* The step that runs one cycle of the attack agent's loop.
AttackStep == queue # <<>> /\ ev.proc = "attack_cycle"

\* The per-node protocol state.
nodeState == <<parent, prefix, neighbors, downward_routes, inbox, I, t>>

\* C13: an attack injection targets a node that is not the attacker and has at
\* least one downward route when it is selected; an attack cycle with no such
\* node calls no receive_dao and changes no node's state.
C13_AttackTargetsEligibleNode ==
    [][AttackStep =>
        IF \E v \in Nodes \ {attacker} : downward_routes[v] # {}
           THEN last'.op = "receive_dao"
                   => /\ last'.node # attacker
                      /\ downward_routes[last'.node] # {}
           ELSE /\ last'.op # "receive_dao"
                /\ nodeState' = nodeState]_vars

\* C13 witness: an attack cycle just found no node to target.
C13_Witness ==
    /\ last.op = "attack"
    /\ last.branch = "no_victim"
    /\ attacker # None
    /\ \A v \in Nodes \ {attacker} : downward_routes[v] = {}

\* C14: the attack agent runs at most max_spoofs cycles of its loop, whether
\* or not a cycle finds a node to target.
C14_AttackCyclesWithinBudget == cycles <= max_spoofs

\* The step dispatches a DIO from sender to node n.
DispatchesDio(n, sender) ==
    /\ queue # <<>>
    /\ ev.proc = "run_inbox"
    /\ ev.node = n
    /\ ev.item = <<"DIO", sender>>

\* C15: a node's prefix or parent changes only in a receive_dio step in which
\* that node takes the sender of the DIO as its new parent; every other step
\* (DIS, DAO, DAO-ACK and data handling, timers, attack-agent steps) leaves
\* every node's prefix and parent unchanged.
C15_PrefixChangesOnlyOnParentChange ==
    [][\A n \in Nodes :
          (prefix'[n] # prefix[n] \/ parent'[n] # parent[n])
             => /\ parent'[n] # parent[n]
                /\ DispatchesDio(n, parent'[n])
                /\ \A m \in Nodes \ {n} :
                      prefix'[m] = prefix[m] /\ parent'[m] = parent[m]]_vars

\* C15 witness: a node that had a parent just switched to another one and took
\* a new prefix.
C15_Witness ==
    /\ last.op = "receive_dio"
    /\ last.branch = "switch"
    /\ parent[last.node] = last.from
    /\ prefix[last.node] = DerivePrefix(prefix[last.from], last.node)

\* The step is the arrival of a transmission that was started a positive delay
\* earlier (send_dao_ack's _delay_ack, send_packet's _delay_tx).
ArrivalStep ==
    /\ queue # <<>>
    /\ ev.proc \in {"delay_ack", "delay_tx"}
    /\ TX_DELAY > 0
    /\ DATA_TX_DELAY > 0

\* C16: a message of any kind reaches the receiver's inbox only after a fixed
\* positive delay from the instant at which it was sent: an inbox grows only
\* in the arrival step of a transmission, never in the step that sends.
C16_MessagesArriveAfterDelay ==
    [][\A m \in Nodes :
          Len(inbox'[m]) > Len(inbox[m]) => ArrivalStep]_vars

\* Number of transmissions of the DAO-ACK ack to node m under way.
AckInFlight(q, m, ack) ==
    Cardinality({i \in 1 .. Len(q) :
        q[i].proc = "delay_ack" /\ q[i].node = m /\ q[i].item = ack})

\* C18: a receive_dao step that installs (prefix, child) appends exactly one
\* DAO with the same (child, prefix) to the parent's inbox if and only if the
\* node has a parent, and sends exactly one DAO-ACK with status 0 to the child
\* named in the DAO, with or without a parent.
C18_InstallForwardsAndAcks ==
    [][(/\ DaoStep
        /\ <<last'.prefix, last'.from>> \notin downward_routes[last'.node]
        /\ Cardinality(downward_routes[last'.node]) < max_downward_routes)
          => LET n == last'.node
                 child == last'.from
                 pfx == last'.prefix
                 ack == <<"DAO-ACK", n, pfx, 0>>
             IN  /\ <<pfx, child>> \in downward_routes'[n]
                 /\ \A m \in Nodes \ {n} :
                       inbox'[m] = IF m = parent[n]
                                      THEN Append(inbox[m], <<"DAO", child, pfx>>)
                                      ELSE inbox[m]
                 /\ Len(inbox'[n]) <= Len(inbox[n])
                 /\ AckInFlight(queue', child, ack)
                       = AckInFlight(queue, child, ack) + 1
                 /\ AcksInFlight(queue') = AcksInFlight(queue) + 1]_vars

\* C18 witness: a node with a parent just installed a mapping; the forwarded
\* DAO is the last message of the parent's inbox.
C18_Witness ==
    /\ last.op = "receive_dao"
    /\ last.branch = "installed"
    /\ parent[last.node] # None
    /\ inbox[parent[last.node]] # <<>>
    /\ inbox[parent[last.node]][Len(inbox[parent[last.node]])]
          = <<"DAO", last.from, last.prefix>>

\* Number of send_dis processes of node n under way.
SendDisRunning(q, n) ==
    Cardinality({i \in 1 .. Len(q) : q[i].proc = "send_dis" /\ q[i].node = n})

\* min(a, b)
Min(a, b) == IF a < b THEN a ELSE b

\* C19: every node has Imin <= t <= I <= Imax in every reachable state; a
\* fire of the trickle timer sets I to min(2*I, Imax), so that I never
\* decreases, and nothing else changes I or t; a fire issues the DIS
\* re-broadcast (send_dis) if and only if the node has no neighbor then.
C19_TrickleBounds ==
    /\ [](\A n \in Nodes : Imin <= t[n] /\ t[n] <= I[n] /\ I[n] <= Imax)
    /\ [][\A n \in Nodes :
             LET fires == queue # <<>> /\ ev.proc = "trickle_timer" /\ ev.node = n
                 resumes == queue # <<>> /\ ev.proc = "trickle_resume"
                               /\ ev.node = n
             IN  /\ I'[n] >= I[n]
                 /\ (I'[n] # I[n] \/ t'[n] # t[n])
                       => /\ I'[n] = Min(2 * I[n], Imax)
                          /\ (fires /\ neighbors[n] # {}) \/ resumes
                 /\ fires =>
                       /\ (SendDisRunning(queue', n) > SendDisRunning(queue, n))
                             <=> neighbors[n] = {}
                       /\ neighbors[n] = {} =>
                             \A m \in AllNodes \ {n} :
                                InRange(n, m) =>
                                   inbox'[m] = Append(inbox[m], <<"DIS", n>>)
                       /\ neighbors[n] # {} =>
                             /\ I'[n] = Min(2 * I[n], Imax)
                             /\ inbox' = inbox
                 /\ resumes => I'[n] = Min(2 * I[n], Imax)]_vars

\* C19 witness: a node without neighbors has reached I = Imax and is running
\* the DIS re-broadcast of a fire.
C19_Witness ==
    \E n \in Nodes :
        /\ neighbors[n] = {}
        /\ I[n] = Imax
        /\ SendDisRunning(queue, n) = 1

\* The ids generate_traffic can give to a packet.
PacketIds == 0 .. (MaxTrafficCycles - 1)

\* The packet with this id is in the network: waiting in an inbox, held by
\* a run_inbox that popped it, or in a transmission of send_packet.
InNetwork(id) ==
    \/ \E n \in Nodes : \E i \in DOMAIN inbox[n] :
          inbox[n][i][1] = "DATA" /\ inbox[n][i][2] = id
    \/ \E i \in DOMAIN queue :
          /\ queue[i].proc \in {"run_inbox", "delay_tx"}
          /\ queue[i].item # NoItem
          /\ queue[i].item[1] = "DATA"
          /\ queue[i].item[2] = id

\* C20: every data packet the traffic generator injects is eventually
\* delivered or dropped, that is, it leaves the network; no packet is
\* forwarded for ever.
C20_EveryPacketLeavesNetwork ==
    \A id \in PacketIds : InNetwork(id) ~> ~InNetwork(id)

\* C21: whenever handle_packet forwards a data packet to a next hop other
\* than the node itself, down to the child of the route or up to the parent,
\* the next hop is in the node's neighbor list and within CONNECTION_RANGE.
C21_ForwardsOnlyToNeighbors ==
    [][PacketStep =>
        LET n == ev.node
            pkt == ev.item
        IN  \A m \in Nodes \ {n} :
                TxStarted(m, pkt) > 0 =>
                    m \in neighbors[n] /\ InRange(n, m)]_vars

\* C22: in every reachable state a node's parent, when it has one, is in the
\* node's neighbor list.
C22_ParentIsNeighbor ==
    \A n \in Nodes : parent[n] # None => parent[n] \in neighbors[n]

\* C22 witness: a node has just switched from one neighbor to another as its
\* parent, and has a neighbor that is not its parent.
C22_Witness ==
    /\ last.op = "receive_dio"
    /\ last.branch = "switch"
    /\ parent[last.node] = last.from
    /\ neighbors[last.node] \ {parent[last.node]} # {}

\* C23: each data packet is delivered at most once and is in no inbox or
\* transmission after its delivery (a packet that has left the network never
\* comes back), so total_data_delivered never exceeds total_data_sent.
C23_DeliveredAtMostOnce ==
    /\ [](total_data_delivered <= total_data_sent)
    /\ [][\A id \in PacketIds :
            /\ (PacketStep /\ last'.branch = "deliver" /\ ev.item[2] = id)
                  => ~InNetwork(id)'
            /\ (packet_id > id /\ ~InNetwork(id)) => ~InNetwork(id)']_vars

\* C23 witness: the one packet sent has just been delivered and is gone from
\* the network.
C23_Witness ==
    /\ last.op = "handle_packet"
    /\ last.branch = "deliver"
    /\ total_data_sent = 1
    /\ total_data_delivered = 1
    /\ ~InNetwork(0)

\* C24: the distance from a node to its parent never increases: a node that
\* has a parent keeps one, every change of its parent takes a strictly closer
\* node, and the number of times a node has taken a parent is at most the
\* number of its neighbors, so parent selection stabilises.
C24_ParentDistanceDecreases ==
    /\ [](\A n \in Nodes : parent_changes[n] <= Cardinality(neighbors[n]))
    /\ [][\A n \in Nodes :
            parent[n] # None =>
                /\ parent'[n] # None
                /\ Dist2(position[n], position[parent'[n]])
                     <= Dist2(position[n], position[parent[n]])
                /\ parent'[n] # parent[n] =>
                     Dist2(position[n], position[parent'[n]])
                       < Dist2(position[n], position[parent[n]])]_vars

\* C24 witness: a node has just switched to a closer parent, its second, and
\* has handled since then a DIO it did not follow.
C24_Witness ==
    \E n \in Nodes :
        /\ parent_changes[n] = 2
        /\ last.op = "receive_dio"
        /\ last.node = n
        /\ last.branch = "keep"
        /\ last.from # parent[n]

====
